---- MODULE Spec2Model ----
(***************************************************************************)
(* A model of usersim's shared Internet Explorer executor                  *)
(* (tasks/iebrowser.py: IEManager, IEBrowser) and of its stochastic        *)
(* trigger (tasks/frequency.py: Frequency).                                *)
(*                                                                         *)
(* IEManager keeps its state in three class attributes (_action_queue,     *)
(* _ie, _persist) that the main UserSim thread and the consumer threads    *)
(* read and write without a lock, so every read or write of a class        *)
(* attribute is a step of its own here and the steps of the threads        *)
(* interleave freely.  queue.Queue's own operations are atomic.  The tasks  *)
(* are constructed and invoked by the one main UserSim thread, in any      *)
(* order; every queue made starts a consumer thread of its own.            *)
(***************************************************************************)
EXTENDS Integers, Sequences, FiniteSets, TLC

\* Bound of the model: the operations that put a request on a queue or make a
\* queue (IEBrowser constructions and invocations) in one behaviour.
MaxOps == 3

\* Every construction makes at most one task and at most one queue.
Tasks == 1..MaxOps
Gens == 1..(MaxOps + 1)

VARIABLES
    action_queue,  \* IEManager._action_queue: [none, items]
    ie,            \* IEManager._ie: [null, gen, busy, dead]
    persist,       \* IEManager._persist
    worker,        \* the consumer threads, by generation: [pc, cur]
    gen,           \* number of queues created so far
    main,          \* the main UserSim thread: [pc, op, t]
    task,          \* the IEBrowser objects: [made, failed, close]
    ret,           \* what the main thread's operation returns or raises, until it is back in the orchestrator
    submitted,     \* history: every request put on a queue, in put order
    executed,      \* history: the requests whose action() was called, in call order
    feedback       \* history: the api.add_feedback calls, in call order

ievars == <<action_queue, ie, persist, worker, gen, main, task, ret,
            submitted, executed, feedback>>

\* Bounds of the trigger's model.
MaxReps == 2       \* largest configured repetitions
MaxHalf == 4       \* largest configured number, in halves (4 is 2.0)

MaxClock == 4      \* largest reading of time.time(), in seconds
RandDen == 4       \* random.random() draws one of 0/RandDen .. (RandDen-1)/RandDen

\* frequency.py:16  3600 / freq
SecondsPerHour == 3600

\* Configured frequencies (occurrences per hour) with a whole number of seconds per trigger.
Freqs == {900, 1800, 3600}
\* Nested task configurations.
Configs == {"cfgA", "cfgB"}
\* Firings after which the model stops invoking an unlimited trigger.
MaxTriggered == MaxReps + 2

VARIABLES
    time_per_trigger,  \* Frequency._time_per_trigger
    reps,              \* Frequency._reps
    triggered,         \* Frequency._triggered
    nested,            \* Frequency._task
    last_check,        \* Frequency._last_check
    clock,             \* what time.time() returns now
    spawned,           \* history: the arguments of the api.new_task calls
    fpc,               \* where the orchestrator is with the trigger
    slept,             \* Frequency.__call__'s local slept, of the last invocation
    draw,              \* random.random() of the last invocation, in RandDen-ths
    conf,              \* the conf_dict handed to Frequency.config
    outcome            \* what Frequency.config raised, or "ok"

fvars == <<time_per_trigger, reps, triggered, nested, last_check, clock, spawned, fpc,
           slept, draw, conf, outcome>>

vars == <<ievars, fvars>>

\* ------------------------------------------------------------- values

\* iebrowser.py:34  _action_queue = None
NoQueue == [none |-> TRUE, items |-> <<>>]
\* iebrowser.py:42  queue.Queue()
EmptyQueue == [none |-> FALSE, items |-> <<>>]
\* iebrowser.py:35  _ie = None
NoIE == [null |-> TRUE, gen |-> 0, busy |-> FALSE, dead |-> FALSE]
\* iebrowser.py:114  the COM object EnsureDispatch returns to the thread of generation g
NewIE(g) == [null |-> FALSE, gen |-> g, busy |-> FALSE, dead |-> FALSE]

\* The entry of a request in the history: the n-th put overall.
NoReq == [act |-> "none", id |-> 0, delay |-> 0, n |-> 0, gen |-> 0]
\* iebrowser.py:48  (cls._start_ie, 0, 10)
StartReq(n, g) == [act |-> "start", id |-> 0, delay |-> 10, n |-> n, gen |-> g]
\* iebrowser.py:92  (functools.partial(cls._visit_site, site), task_id, delay); delay defaults to 0
VisitReq(t, n, g) == [act |-> "visit", id |-> t, delay |-> 0, n |-> n, gen |-> g]

IdleMain == [pc |-> "idle", op |-> "none", t |-> 0]
\* The main thread at the end of operation op of task t, its outcome in ret.
Returned(op, t) == [pc |-> "returned", op |-> op, t |-> t]

\* ------------------------------------------------------------- Init

IEInit ==
    /\ action_queue = NoQueue
    /\ ie = NoIE
    /\ persist = TRUE
    /\ worker = [g \in Gens |-> [pc |-> "unborn", cur |-> NoReq]]
    /\ gen = 0
    /\ main = IdleMain
    /\ task = [t \in Tasks |-> [made |-> FALSE, failed |-> FALSE, close |-> FALSE]]
    /\ ret = "none"
    /\ submitted = <<>>
    /\ executed = <<>>
    /\ feedback = <<>>

\* ------------------------------------------------------------- helpers

\* A put that adds at the head of the queue.
Put_front(q, r) == [q EXCEPT !.items = <<r>> \o @]

\* queue.Queue.put: append at the tail.
Put(q, r) == [q EXCEPT !.items = Append(@, r)]

\* The number of get calls that have put a request so far.
NumGets == Cardinality({i \in DOMAIN submitted : submitted[i].act = "visit"})

\* The constructions finished so far.
NumTasks == Cardinality({t \in Tasks : task[t].made \/ task[t].failed})

\* The orchestrator numbers its tasks in the order it constructs them: the id of
\* the next one.
NextTask == NumTasks + 1

\* The constructions and the successful puts of get so far.
OpsDone == NumTasks + NumGets

\* Sequence s is a prefix of sequence t.
IsPrefix(s, t) == Len(s) <= Len(t) /\ \A i \in 1..Len(s) : s[i] = t[i]

\* The requests of generation g in a history, in the history's order.
OfGen(h, g) == SelectSeq(h, LAMBDA r : r.gen = g)

\* ------------------------------------------------- the main UserSim thread

\* IEManager.__new__, line 41-42: a queue is made only when there is none.
\* Runs inside IEBrowser.__init__ (line 145-146) for task t configured with
\* close_browser = c.
New_check(t, c) ==
    /\ main.pc = "idle"
    /\ OpsDone < MaxOps
    /\ t = NextTask
    /\ IF action_queue.none
       THEN /\ action_queue' = EmptyQueue
            /\ gen' = gen + 1
            /\ main' = [pc |-> "new_start", op |-> "init", t |-> t]
            /\ task' = [task EXCEPT ![t].close = c]
            /\ ret' = "none"
       ELSE /\ task' = [task EXCEPT ![t] = [made |-> TRUE, failed |-> FALSE, close |-> c]]
            /\ ret' = "ok"
            /\ main' = Returned("init", t)
            /\ UNCHANGED <<action_queue, gen>>
    /\ UNCHANGED <<ie, persist, worker, submitted, executed, feedback, fvars>>

\* IEManager.__new__, line 44-46: the consumer thread starts.
New_start ==
    /\ main.pc = "new_start"
    /\ worker' = [worker EXCEPT ![gen] = [pc |-> "loop", cur |-> NoReq]]
    /\ main' = [main EXCEPT !.pc = "new_put"]
    /\ UNCHANGED <<action_queue, ie, persist, gen, task, ret, submitted, executed, feedback, fvars>>

\* A __new__ that returns without putting _start_ie on the queue.
New_put_skip ==
    /\ main.pc = "new_put"
    /\ task' = [task EXCEPT ![main.t].made = TRUE]
    /\ ret' = "ok"
    /\ main' = Returned("init", main.t)
    /\ UNCHANGED <<action_queue, submitted, ie, persist, worker, gen, executed, feedback, fvars>>

\* IEManager.__new__, line 48-49: _start_ie is put on cls._action_queue, which is
\* read again here; with None there the put raises AttributeError and
\* IEBrowser.__init__ fails.
New_put ==
    /\ main.pc = "new_put"
    /\ IF action_queue.none
       THEN /\ ret' = "AttributeError"
            /\ task' = [task EXCEPT ![main.t].failed = TRUE]
            /\ UNCHANGED <<action_queue, submitted>>
       ELSE /\ action_queue' = Put(action_queue, StartReq(Len(submitted) + 1, gen))
            /\ submitted' = Append(submitted, StartReq(Len(submitted) + 1, gen))
            /\ task' = [task EXCEPT ![main.t].made = TRUE]
            /\ ret' = "ok"
    /\ main' = Returned("init", main.t)
    /\ UNCHANGED <<ie, persist, worker, gen, executed, feedback, fvars>>

\* IEManager.get, line 87-92, called for task t: cls._action_queue.put(...).
\* TRUE iff the put was made; with no queue the call raises AttributeError.
Get(t) ==
    IF action_queue.none
    THEN /\ ret' = "AttributeError"
         /\ UNCHANGED <<action_queue, submitted>>
    ELSE /\ action_queue' = Put(action_queue, VisitReq(t, Len(submitted) + 1, gen))
         /\ submitted' = Append(submitted, VisitReq(t, Len(submitted) + 1, gen))
         /\ ret' = "ok"

\* Browser.__call__ (tasks/browser.py): one site is chosen and handed to the
\* driver's get with the task's id and the default delay.
Browser_call(t) == Get(t)

\* IEBrowser.__call__, line 148-151: super().__call__(), then close_browser
\* when the task was configured with close_browser.  An exception of the put
\* ends the call before line 150.
IEBrowser_call(t) ==
    /\ main.pc = "idle"
    /\ task[t].made
    /\ OpsDone < MaxOps
    /\ Browser_call(t)
    /\ main' = IF ~action_queue.none /\ task[t].close
               THEN [pc |-> "close", op |-> "call", t |-> t]
               ELSE Returned("call", t)
    /\ UNCHANGED <<ie, persist, worker, gen, task, executed, feedback, fvars>>

\* IEManager.close_browser, line 103-107.
Close_browser ==
    /\ main.pc = "close"
    /\ persist' = FALSE
    /\ main' = Returned("call", main.t)
    /\ UNCHANGED <<action_queue, ie, worker, gen, task, ret, submitted, executed, feedback, fvars>>

\* A status with the two answers of line 98-101 exchanged.
BusyText_swapped(h) == IF h.busy THEN "idle" ELSE "loading"

\* What status reports for a handle it could read .Busy of (line 98-101).
BusyText(h) == IF h.busy THEN "loading" ELSE "idle"

\* IEManager.status, line 96-97: the first read of cls._ie.
Status_check ==
    /\ main.pc = "idle"
    /\ IF ie.null
       THEN ret' = "notstarted" /\ main' = Returned("status", 0)
       ELSE ret' = "none" /\ main' = [pc |-> "status_busy", op |-> "status", t |-> 0]
    /\ UNCHANGED <<action_queue, ie, persist, worker, gen, task, submitted, executed, feedback, fvars>>

\* IEManager.status, line 98-101: the second read of cls._ie, and of its Busy.
\* None has no Busy (AttributeError); a closed or killed browser answers no COM call.
Status_busy ==
    /\ main.pc = "status_busy"
    /\ ret' = IF ie.null \/ ie.dead THEN "error" ELSE BusyText(ie)
    /\ main' = Returned("status", 0)
    /\ UNCHANGED <<action_queue, ie, persist, worker, gen, task, submitted, executed, feedback, fvars>>

\* The operation's outcome reaches the orchestrator, which goes on to its next
\* operation.
Return ==
    /\ main.pc = "returned"
    /\ main' = IdleMain
    /\ ret' = "none"
    /\ UNCHANGED <<action_queue, ie, persist, worker, gen, task, submitted, executed, feedback, fvars>>

\* ------------------------------------------------- the consumer thread

\* An executor without the try of line 65-68: an exception of action() ends
\* the thread.
Finish_uncaught(g, raised) ==
    /\ worker' = [worker EXCEPT ![g] = [pc |-> IF raised THEN "crashed" ELSE "loop", cur |-> NoReq]]
    /\ UNCHANGED feedback

\* What the end of one request leaves of the thread: line 66-69, then back to
\* the loop's condition.  raised: action() raised, so line 68 reports it.
Finish(g, raised) ==
    /\ worker' = [worker EXCEPT ![g] = [pc |-> "loop", cur |-> NoReq]]
    /\ feedback' = IF raised
                   THEN Append(feedback, [id |-> worker[g].cur.id, n |-> worker[g].cur.n])
                   ELSE feedback

\* A loop that ends as soon as _persist is false.
KeepLooping_persist == persist

\* _action_executor, line 57: cls._persist or not cls._action_queue.empty().
KeepLooping == persist \/ action_queue.items # <<>>

\* _action_executor, line 57: one evaluation of the while condition.  With
\* _persist false it reads cls._action_queue, and None has no empty().
Executor_loop(g) ==
    /\ worker[g].pc = "loop"
    /\ worker' = [worker EXCEPT ![g].pc =
           IF ~persist /\ action_queue.none THEN "crashed"
           ELSE IF KeepLooping THEN "get"
           ELSE "reset"]
    /\ UNCHANGED <<action_queue, ie, persist, gen, main, task, ret, submitted, executed, feedback, fvars>>

\* _action_executor, line 61-63: cls._action_queue.get(timeout=1) hands over the
\* head of the queue, or gives up on an empty queue after a second.
Executor_get(g) ==
    /\ worker[g].pc = "get"
    /\ IF action_queue.none
       THEN /\ worker' = [worker EXCEPT ![g].pc = "crashed"]
            /\ UNCHANGED action_queue
       ELSE IF action_queue.items # <<>>
       THEN /\ worker' = [worker EXCEPT ![g] = [pc |-> "run", cur |-> Head(action_queue.items)]]
            /\ action_queue' = [action_queue EXCEPT !.items = Tail(@)]
       ELSE /\ worker' = [worker EXCEPT ![g].pc = "loop"]
            /\ UNCHANGED action_queue
    /\ UNCHANGED <<ie, persist, gen, main, task, ret, submitted, executed, feedback, fvars>>

\* _start_ie, line 109-115, called at line 66.  ok: EnsureDispatch gave a browser.
Start_ie(g, ok) ==
    /\ worker[g].pc = "run"
    /\ worker[g].cur.act = "start"
    /\ ie' = IF ok THEN NewIE(g) ELSE ie
    /\ executed' = Append(executed, worker[g].cur)
    /\ Finish(g, ~ok)
    /\ UNCHANGED <<action_queue, persist, gen, main, task, ret, submitted, fvars>>

\* _visit_site, line 117-121, called at line 66: cls._ie.Navigate(site).  None has
\* no Navigate, a closed or killed browser answers no COM call; ok: the
\* navigation was accepted, and the browser is loading.
Visit_site(g, ok) ==
    /\ worker[g].pc = "run"
    /\ worker[g].cur.act = "visit"
    /\ executed' = Append(executed, worker[g].cur)
    /\ IF ~ie.null /\ ~ie.dead /\ ok
       THEN /\ ie' = [ie EXCEPT !.busy = TRUE]
            /\ worker' = [worker EXCEPT ![g].pc = "wait"]
            /\ UNCHANGED feedback
       ELSE /\ Finish(g, TRUE)
            /\ UNCHANGED ie
    /\ UNCHANGED <<action_queue, persist, gen, main, task, ret, submitted, fvars>>

\* _wait_for_ie, line 129: one evaluation of the loop's condition that ends the
\* wait: the page is loaded, or cls._ie has no Busy to read and the exception
\* reaches line 67.
Wait_for_ie(g) ==
    /\ worker[g].pc = "wait"
    /\ ie.null \/ ie.dead \/ ~ie.busy
    /\ Finish(g, ie.null \/ ie.dead)
    /\ UNCHANGED <<action_queue, ie, persist, gen, main, task, ret, submitted, executed, fvars>>

\* A guard that finds no process to terminate and goes round the loop again.
Wait_timeout_idle(g, ok) ==
    /\ worker[g].pc = "wait"
    /\ ~ie.null /\ ~ie.dead /\ ie.busy
    /\ UNCHANGED vars

\* _wait_for_ie, line 130-135: the browser is still loading after 200 seconds.
\* ok: its process is terminated and the loop goes on; otherwise one of the
\* calls of line 131-135 raises and the exception reaches line 67.
Wait_timeout(g, ok) ==
    /\ worker[g].pc = "wait"
    /\ ~ie.null /\ ~ie.dead /\ ie.busy
    /\ IF ok
       THEN ie' = [ie EXCEPT !.dead = TRUE] /\ UNCHANGED <<worker, feedback>>
       ELSE Finish(g, TRUE) /\ UNCHANGED ie
    /\ UNCHANGED <<action_queue, persist, gen, main, task, ret, submitted, executed, fvars>>

\* Internet Explorer finishes loading the page: Busy goes false, readyState complete.
IE_loaded ==
    /\ ~ie.null /\ ~ie.dead /\ ie.busy
    /\ ie' = [ie EXCEPT !.busy = FALSE]
    /\ UNCHANGED <<action_queue, persist, worker, gen, main, task, ret, submitted, executed, feedback, fvars>>

\* _action_executor, line 71: cls._action_queue = None.
Executor_reset(g) ==
    /\ worker[g].pc = "reset"
    /\ action_queue' = NoQueue
    /\ worker' = [worker EXCEPT ![g].pc = "persist"]
    /\ UNCHANGED <<ie, persist, gen, main, task, ret, submitted, executed, feedback, fvars>>

\* _action_executor, line 72: cls._persist = True.
Executor_persist(g) ==
    /\ worker[g].pc = "persist"
    /\ persist' = TRUE
    /\ worker' = [worker EXCEPT ![g].pc = "quit"]
    /\ UNCHANGED <<action_queue, ie, gen, main, task, ret, submitted, executed, feedback, fvars>>

\* _action_executor, line 74-76: cls._ie.Quit().  ok: the browser closed.
Executor_quit(g, ok) ==
    /\ worker[g].pc = "quit"
    /\ IF ~ie.null /\ ~ie.dead /\ ok
       THEN /\ ie' = [ie EXCEPT !.dead = TRUE]
            /\ worker' = [worker EXCEPT ![g].pc = "clear"]
       ELSE /\ worker' = [worker EXCEPT ![g].pc = "kill"]
            /\ UNCHANGED ie
    /\ UNCHANGED <<action_queue, persist, gen, main, task, ret, submitted, executed, feedback, fvars>>

\* A forced kill whose failure leaves the thread through the exception.
Executor_kill_escape(g, ok) ==
    /\ worker[g].pc = "kill"
    /\ ie' = IF ok /\ ~ie.null THEN [ie EXCEPT !.dead = TRUE] ELSE ie
    /\ worker' = [worker EXCEPT ![g].pc = IF ok THEN "clear" ELSE "crashed"]
    /\ UNCHANGED <<action_queue, persist, gen, main, task, ret, submitted, executed, feedback, fvars>>

\* _action_executor, line 77-83: every iexplore process is killed; what the
\* attempt raises is dropped.  ok: the processes were killed.
Executor_kill(g, ok) ==
    /\ worker[g].pc = "kill"
    /\ ie' = IF ok /\ ~ie.null THEN [ie EXCEPT !.dead = TRUE] ELSE ie
    /\ worker' = [worker EXCEPT ![g].pc = "clear"]
    /\ UNCHANGED <<action_queue, persist, gen, main, task, ret, submitted, executed, feedback, fvars>>

\* _action_executor, line 84-85: cls._ie = None; the thread ends.
Executor_clear(g) ==
    /\ worker[g].pc = "clear"
    /\ ie' = NoIE
    /\ worker' = [worker EXCEPT ![g].pc = "done"]
    /\ UNCHANGED <<action_queue, persist, gen, main, task, ret, submitted, executed, feedback, fvars>>

\* ------------------------------------------------------------- Spec

\* ------------------------------------------------- the Frequency trigger

\* A key that conf_dict does not have.
Absent == [k |-> "absent", h |-> 0]

\* The conf_dict with no keys.
NoConf == [frequency |-> Absent, repetitions |-> Absent, task |-> "absent"]

\* Numbers are kept in halves, so that 2.5 is h = 5: the values that
\* conf_dict['frequency'] and conf_dict['repetitions'] are drawn from are
\*   int       an int object, h even
\*   float     a float object
\*   intstr    a str spelling an integer literal, as '2'
\*   floatstr  a str spelling a number with a decimal point, as '2.0', '2.5'
\*   word      a str spelling no number, as 'often'
\*   None      the None object
Halves == (0 - MaxHalf)..MaxHalf

Whole == {h \in Halves : h % 2 = 0}

Values ==
    [k : {"int", "intstr"}, h : Whole] \cup [k : {"float", "floatstr"}, h : Halves]
        \cup [k : {"word", "None"}, h : {0}]

ConfDicts ==
    [frequency : Values \cup {Absent}, repetitions : Values \cup {Absent},
     task : Configs \cup {"absent"}]

\* Python's float(v): a number or a str spelling one converts, any other
\* str raises ValueError, None raises TypeError.
float(v) ==
    CASE v.k \in {"int", "float", "intstr", "floatstr"} -> [raised |-> "none", h |-> v.h]
      [] v.k = "word" -> [raised |-> "ValueError", h |-> 0]
      [] OTHER -> [raised |-> "TypeError", h |-> 0]

\* Python's int(v): an int is kept, a float is truncated towards zero, a str
\* converts only if it spells an integer literal, None raises TypeError.
int(v) ==
    CASE v.k \in {"int", "intstr"} -> [raised |-> "none", n |-> v.h \div 2]
      [] v.k = "float" ->
            [raised |-> "none", n |-> IF v.h >= 0 THEN v.h \div 2 ELSE 0 - ((0 - v.h) \div 2)]
      [] v.k \in {"floatstr", "word"} -> [raised |-> "ValueError", n |-> 0]
      [] OTHER -> [raised |-> "TypeError", n |-> 0]

Raises(e) == [raised |-> e, freq |-> 0, reps |-> 0, task |-> "absent"]

\* Frequency.config, lines 61-88, in the order of the code: each field is
\* looked up and validated before the next one is looked up, and only the
\* ValueError of float() and int() is caught (and raised again).
config(conf_dict) ==
    IF conf_dict.frequency = Absent THEN Raises("KeyError")
    ELSE LET freq == float(conf_dict.frequency) IN
    IF freq.raised # "none" THEN Raises(freq.raised)
    ELSE IF freq.h <= 0 THEN Raises("ValueError")
    ELSE IF conf_dict.repetitions = Absent THEN Raises("KeyError")
    ELSE LET r == int(conf_dict.repetitions) IN
    IF r.raised # "none" THEN Raises(r.raised)
    ELSE IF r.n < 0 THEN Raises("ValueError")
    ELSE IF conf_dict.task = "absent" THEN Raises("KeyError")
    ELSE [raised |-> "none", freq |-> freq.h, reps |-> r.n, task |-> conf_dict.task]

\* No trigger is configured.
FreqParked ==
    /\ time_per_trigger = 0
    /\ reps = 0
    /\ triggered = 0
    /\ nested = "none"
    /\ last_check = 0
    /\ clock = 0
    /\ spawned = <<>>
    /\ fpc = "none"
    /\ slept = 0
    /\ draw = 0
    /\ conf = NoConf
    /\ outcome = "none"

\* Frequency.__init__, line 9-20, for a configuration config has accepted:
\* freq > 0, reps >= 0, at any time of the clock.
FreqInit ==
    /\ \E freq \in Freqs : time_per_trigger = SecondsPerHour \div freq
    /\ reps \in 0..MaxReps
    /\ triggered = 0
    /\ nested \in Configs
    /\ clock \in 0..MaxClock
    /\ last_check = clock
    /\ spawned = <<>>
    /\ fpc = "ready"
    /\ slept = 0
    /\ draw = 0
    /\ conf = NoConf
    /\ outcome = "none"

\* time.time() moves: forward, or back when the system clock is set back.
Tick(d) ==
    /\ clock + d \in 0..MaxClock
    /\ clock' = clock + d
    /\ UNCHANGED <<time_per_trigger, reps, triggered, nested, last_check, spawned, fpc,
                   slept, draw, conf, outcome, ievars>>

\* The probability turned upside down: time_per_trigger / slept.
Fires_inverted(elapsed, r) == r * elapsed < time_per_trigger * RandDen

\* Frequency.__call__, line 27-28, with elapsed seconds since the last check and
\* the draw r / RandDen: random.random() < slept / self._time_per_trigger.
Fires(elapsed, r) == r * time_per_trigger < elapsed * RandDen

\* A trigger that makes up for a long sleep: one count per whole mean interval.
Frequency_call_catchup(r) ==
    /\ fpc = "ready"
    /\ triggered < MaxTriggered
    /\ slept' = clock - last_check
    /\ draw' = r
    /\ last_check' = clock
    /\ IF Fires(clock - last_check, r)
       THEN /\ triggered' = triggered +
                    (IF clock - last_check >= time_per_trigger
                     THEN (clock - last_check) \div time_per_trigger ELSE 1)
            /\ spawned' = Append(spawned, nested)
       ELSE UNCHANGED <<triggered, spawned>>
    /\ fpc' = "called"
    /\ UNCHANGED <<time_per_trigger, reps, nested, clock, conf, outcome, ievars>>

\* A trigger that restarts its measurement only when it fires.
Frequency_call_sincefire(r) ==
    /\ fpc = "ready"
    /\ triggered < MaxTriggered
    /\ slept' = clock - last_check
    /\ draw' = r
    /\ IF Fires(clock - last_check, r)
       THEN /\ triggered' = triggered + 1
            /\ spawned' = Append(spawned, nested)
            /\ last_check' = clock
       ELSE UNCHANGED <<triggered, spawned, last_check>>
    /\ fpc' = "called"
    /\ UNCHANGED <<time_per_trigger, reps, nested, clock, conf, outcome, ievars>>

\* Frequency.__call__, lines 22-30, with the draw r / RandDen.
Frequency_call(r) ==
    /\ fpc = "ready"
    /\ triggered < MaxTriggered
    /\ slept' = clock - last_check
    /\ draw' = r
    /\ last_check' = clock
    /\ IF Fires(clock - last_check, r)
       THEN /\ triggered' = triggered + 1
            /\ spawned' = Append(spawned, nested)
       ELSE UNCHANGED <<triggered, spawned>>
    /\ fpc' = "called"
    /\ UNCHANGED <<time_per_trigger, reps, nested, clock, conf, outcome, ievars>>

\* A stop that goes on for one firing more.
Frequency_stop_late == ~(reps = 0 \/ triggered <= reps)

\* Frequency.stop, line 35-39.
Frequency_stop == ~(reps = 0 \/ triggered < reps)

\* The orchestrator asks stop() after an invocation, and retires the task once
\* it is true.
Orchestrator_stop ==
    /\ fpc = "called"
    /\ fpc' = IF Frequency_stop THEN "retired" ELSE "ready"
    /\ UNCHANGED <<time_per_trigger, reps, triggered, nested, last_check, clock, spawned,
                   slept, draw, conf, outcome, ievars>>

\* A conf_dict reaches Frequency.config before any trigger exists.
ConfInit ==
    /\ time_per_trigger = 0
    /\ reps = 0
    /\ triggered = 0
    /\ nested = "none"
    /\ last_check = 0
    /\ clock = 0
    /\ spawned = <<>>
    /\ fpc = "none"
    /\ slept = 0
    /\ draw = 0
    /\ conf \in ConfDicts
    /\ outcome = "none"

\* The call Frequency.config(conf): it raises, or line 88 constructs the
\* trigger with Frequency.__init__ (lines 16-20); freq is in halves, so
\* 3600 / freq is 7200 over the halves.
Frequency_config ==
    /\ fpc = "none"
    /\ outcome = "none"
    /\ LET res == config(conf) IN
       IF res.raised = "none"
       THEN /\ outcome' = "ok"
            /\ time_per_trigger' = (2 * SecondsPerHour) \div res.freq
            /\ reps' = res.reps
            /\ triggered' = 0
            /\ nested' = res.task
            /\ last_check' = clock
            /\ fpc' = "ready"
       ELSE /\ outcome' = res.raised
            /\ UNCHANGED <<time_per_trigger, reps, triggered, nested, last_check, fpc>>
    /\ UNCHANGED <<clock, spawned, slept, draw, conf, ievars>>

ConfigNext == Frequency_config

InitConfig == IEInit /\ ConfInit

SpecConfig == InitConfig /\ [][ConfigNext]_vars

FreqNext ==
    \/ \E d \in {-1} \cup (1..MaxClock) : Tick(d)
    \/ \E r \in 0..(RandDen - 1) : Frequency_call(r)
    \/ Orchestrator_stop

\* The trigger alone, under the orchestrator.
InitFreq == IEInit /\ FreqInit

SpecFreq == InitFreq /\ [][FreqNext]_vars

IENext ==
    \/ \E t \in Tasks, c \in BOOLEAN : New_check(t, c)
    \/ New_start
    \/ New_put
    \/ \E t \in Tasks : IEBrowser_call(t)
    \/ Close_browser
    \/ Status_check
    \/ Status_busy
    \/ Return
    \/ \E g \in Gens : Executor_loop(g)
    \/ \E g \in Gens : Executor_get(g)
    \/ \E g \in Gens, ok \in BOOLEAN : Start_ie(g, ok)
    \/ \E g \in Gens, ok \in BOOLEAN : Visit_site(g, ok)
    \/ \E g \in Gens : Wait_for_ie(g)
    \/ \E g \in Gens, ok \in BOOLEAN : Wait_timeout(g, ok)
    \/ IE_loaded
    \/ \E g \in Gens : Executor_reset(g)
    \/ \E g \in Gens : Executor_persist(g)
    \/ \E g \in Gens, ok \in BOOLEAN : Executor_quit(g, ok)
    \/ \E g \in Gens, ok \in BOOLEAN : Executor_kill(g, ok)
    \/ \E g \in Gens : Executor_clear(g)

\* The executor alone, under the main thread.
Init == IEInit /\ FreqParked

Spec == Init /\ [][IENext]_vars

\* The steps of consumer thread g.
Worker(g) ==
    \/ Executor_loop(g)
    \/ Executor_get(g)
    \/ \E ok \in BOOLEAN : Start_ie(g, ok)
    \/ \E ok \in BOOLEAN : Visit_site(g, ok)
    \/ Wait_for_ie(g)
    \/ \E ok \in BOOLEAN : Wait_timeout(g, ok)
    \/ Executor_reset(g)
    \/ Executor_persist(g)
    \/ \E ok \in BOOLEAN : Executor_quit(g, ok)
    \/ \E ok \in BOOLEAN : Executor_kill(g, ok)
    \/ Executor_clear(g)

\* The steps that finish an operation the main thread has begun.
MainGoesOn == New_start \/ New_put \/ Close_browser \/ Status_busy \/ Return

\* Every started thread is scheduled again and again and its clock advances:
\* get(timeout=1) returns, time.sleep returns, 200 seconds pass; the main
\* thread finishes the operation it is in.  Nothing obliges the orchestrator
\* to begin another operation, nor the browser to finish loading.
Fairness == WF_vars(MainGoesOn) /\ \A g \in Gens : WF_vars(Worker(g))

SpecLive == Init /\ [][IENext]_vars /\ Fairness

\* An executor met during its first teardown: task 1, configured with
\* close_browser, was constructed and run, the consumer thread started the
\* browser, visited the site, found _persist false and the queue empty at
\* line 57 and has executed line 71; line 72 is its next statement.  The
\* histories of the requests begin here.
TeardownInit ==
    /\ action_queue = NoQueue
    /\ ie = NewIE(1)
    /\ persist = FALSE
    /\ worker = [g \in Gens |-> [pc |-> IF g = 1 THEN "persist" ELSE "unborn", cur |-> NoReq]]
    /\ gen = 1
    /\ main = IdleMain
    /\ task = [t \in Tasks |-> [made |-> t = 1, failed |-> FALSE, close |-> t = 1]]
    /\ ret = "none"
    /\ submitted = <<>>
    /\ executed = <<>>
    /\ feedback = <<>>

InitRace == TeardownInit /\ FreqParked

SpecRace == InitRace /\ [][IENext]_vars /\ Fairness

\* ------------------------------------------------------------- claims

\* The requests a consumer thread is executing: taken off the queue, action()
\* not yet returned.
Executing == {g \in Gens : worker[g].pc \in {"run", "wait"}}

C2_StartFirst ==
    \A g \in Gens :
        /\ OfGen(submitted, g) # <<>> => Head(OfGen(submitted, g)).act = "start"
        /\ OfGen(executed, g) # <<>> => Head(OfGen(executed, g)).act = "start"
        /\ \A i \in 2..Len(OfGen(submitted, g)) : OfGen(submitted, g)[i].act = "visit"

\* A caller's request was executed after the start action of its executor.
C2_Witness ==
    /\ Len(executed) >= 2
    /\ executed[1].act = "start"
    /\ executed[2].act = "visit"
    /\ executed[2].gen = executed[1].gen

\* The consumer thread g is at a call that raises whatever the browser does:
\* cls._ie is None or the browser is gone.
MustRaise(g) ==
    /\ \/ worker[g].pc = "run" /\ worker[g].cur.act = "visit"
       \/ worker[g].pc = "wait"
    /\ ie.null \/ ie.dead

\* The step of thread g at a raising action: one feedback tagged with the
\* requester's id, the thread back at its loop, the queue behind it untouched,
\* what ran before untouched.
C3_RaiseStep ==
    \A g \in Gens :
        (MustRaise(g) /\ worker'[g] # worker[g]) =>
            /\ feedback' = Append(feedback, [id |-> submitted[worker[g].cur.n].id,
                                             n |-> worker[g].cur.n])
            /\ worker'[g].pc = "loop"
            /\ action_queue' = action_queue
            /\ IsPrefix(executed, executed')

\* No thread has died of an exception, and no request has two feedbacks or a
\* feedback with another id than its requester's.
C3_FeedbackOnce ==
    /\ \A g \in Gens : worker[g].pc # "crashed"
    /\ \A i, j \in DOMAIN feedback : feedback[i].n = feedback[j].n => i = j
    /\ \A i \in DOMAIN feedback :
           /\ feedback[i].id = submitted[feedback[i].n].id
           /\ \E k \in DOMAIN executed : executed[k].n = feedback[i].n

\* C3: an action that raises gets exactly one feedback tagged with its
\* requester's id, the thread goes on, and the requests queued behind it are
\* kept; the ones that ran before are unaffected.
C3_FailureIsolated == [][C3_RaiseStep]_ievars /\ []C3_FeedbackOnce

\* A caller's action raised and was reported, and the request behind it was executed.
C3_Witness ==
    \E i \in DOMAIN feedback, k \in DOMAIN executed :
        /\ feedback[i].id # 0
        /\ executed[k].n > feedback[i].n
        /\ executed[k].gen = submitted[feedback[i].n].gen

\* Thread g leaves its loop in this step.
LeavesLoop(g) == worker[g].pc = "loop" /\ worker'[g].pc \notin {"loop", "get"}

TornDown ==
    /\ gen > 0
    /\ action_queue.none
    /\ ie.null
    /\ \A g \in 1..gen : worker[g].pc = "done"

\* C5: after the executor has fully torn down, the next invocation of a task
\* (constructed before the teardown or not) puts its request without error on
\* a re-created queue.
C5_SubmitAfterTeardown ==
    [][(TornDown /\ main.pc = "idle" /\ main'.op = "call") =>
            /\ ret' = "ok"
            /\ ~action_queue'.none
            /\ Len(submitted') = Len(submitted) + 1]_ievars

\* Request r waits on the queue or is held by a consumer thread.
Pending(r) ==
    \/ \E i \in DOMAIN action_queue.items : action_queue.items[i] = r
    \/ \E g \in Gens : worker[g].cur = r

\* The number of times request r was executed.
TimesExecuted(r) == Cardinality({k \in DOMAIN executed : executed[k] = r})

\* C6: no request that get has put is ever discarded: it waits on the queue, is
\* held by the consumer thread, or was executed, and never more than once.
C6_NoAcceptedWorkLost ==
    \A i \in DOMAIN submitted :
        submitted[i].act = "visit" =>
            /\ TimesExecuted(submitted[i]) <= 1
            /\ Pending(submitted[i]) \/ TimesExecuted(submitted[i]) = 1

\* The two steps of status: the read of line 96 answers "notstarted" exactly
\* for a None handle; the read of line 98 answers "loading" exactly for a
\* handle that exists and reports Busy, "idle" exactly for one that exists and
\* reports not Busy.
C7_StatusStep ==
    /\ (main.pc = "idle" /\ main'.op = "status") =>
           /\ (ret' = "notstarted") <=> ie.null
           /\ (main'.pc = "returned") <=> ie.null
           /\ ret' \notin {"loading", "idle"}
    /\ (main.pc = "status_busy" /\ main'.pc = "returned") =>
           /\ (ret' = "loading") <=> (~ie.null /\ ~ie.dead /\ ie.busy)
           /\ (ret' = "idle") <=> (~ie.null /\ ~ie.dead /\ ~ie.busy)
           /\ ret' # "notstarted"

\* The handle is None before any start action has run and after every
\* consumer thread has ended.
C7_NullPhases ==
    /\ (\A k \in DOMAIN executed : executed[k].act # "start") => ie.null
    /\ (gen > 0 /\ \A g \in 1..gen : worker[g].pc = "done") => ie.null

\* C7: status answers "not started" exactly when the handle is None (as before
\* any submission, before the start action has run and after teardown), busy
\* exactly when the handle exists and reports Busy, idle exactly when it exists
\* and reports not Busy.
C7_StatusAnswers == [][C7_StatusStep]_ievars /\ []C7_NullPhases

\* status has answered that the browser is loading a page.
C7_Witness == main.pc = "returned" /\ main.op = "status" /\ ret = "loading"

\* The main thread's step that sets _persist to false comes after the put of
\* the same invocation, for a task configured to close; an invocation of a task
\* not configured to close ends with _persist as it was.
C8_CallStep ==
    /\ (persist /\ ~persist') =>
           /\ main.pc = "close"
           /\ task[main.t].close
           /\ submitted # <<>>
           /\ submitted[Len(submitted)] = VisitReq(main.t, Len(submitted), gen)
    /\ (main'.pc = "returned" /\ main'.op = "call" /\ main.pc # "returned" /\ ret' = "ok") =>
           /\ task[main'.t].close <=> main.pc = "close"
           /\ task[main'.t].close => ~persist'
           /\ ~task[main'.t].close => persist' = persist

\* Thread g has called Quit on the browser.
Released(g) == worker[g].pc \in {"kill", "clear", "done"}

\* The request of an invocation that closes the browser is executed before the
\* executor it was put to releases the browser.
C8_ExecutedBeforeRelease ==
    \A i \in DOMAIN submitted :
        (/\ submitted[i].act = "visit"
         /\ task[submitted[i].id].close
         /\ Released(submitted[i].gen)) => TimesExecuted(submitted[i]) = 1

\* C8: an invocation puts its one request before it requests shutdown, and
\* requests shutdown iff close_browser is set; so the request of an invocation
\* with close_browser set is executed before the browser is released, and an
\* invocation without it leaves _persist unchanged.
C8_PutThenClose == [][C8_CallStep]_ievars /\ []C8_ExecutedBeforeRelease

\* C9: stop() is true iff a limit is configured and the count has reached it:
\* never with repetitions 0, not while the count is below repetitions n > 0,
\* and as soon as the count is n; asking it changes nothing of the trigger.
C9_StopIff ==
    /\ [](Frequency_stop <=> (reps # 0 /\ triggered >= reps))
    /\ [](reps = 0 => ~Frequency_stop)
    /\ []((reps > 0 /\ triggered < reps) => ~Frequency_stop)
    /\ []((reps > 0 /\ triggered = reps) => Frequency_stop)
    /\ [][(fpc = "called" /\ fpc' # "called") =>
            /\ (fpc' = "retired") <=> (reps # 0 /\ triggered >= reps)
            /\ UNCHANGED <<time_per_trigger, reps, triggered, nested, last_check, spawned>>]_fvars

\* A trigger limited to two firings was retired at its second firing.
C9_Witness == fpc = "retired" /\ reps = 2 /\ triggered = 2

Missing(c) == c.frequency = Absent \/ c.repetitions = Absent \/ c.task = "absent"

\* C11: whenever frequency, repetitions or task is absent from the
\* configuration, whatever the values of the fields that are present, config
\* fails with KeyError and constructs no trigger.
C11_MissingFieldIsKeyError ==
    (outcome # "none" /\ Missing(conf)) => (outcome = "KeyError" /\ fpc = "none")

\* ------------------------------------------------------------------ C12
\* Not a positive number: zero, negative, or no number at all.
BadFrequency(v) == v.k \in {"word", "None"} \/ v.h <= 0

\* Not a non-negative integer: negative, no number at all, or not integral.
BadRepetitions(v) == v.k \in {"word", "None"} \/ v.h < 0 \/ v.h % 2 # 0

\* C12: with all three fields present, config fails with ValueError and
\* constructs no trigger whenever frequency is not a positive number or
\* repetitions is not a non-negative integer: no other error escapes and no
\* such value is coerced and accepted.
C12_InvalidValueIsValueError ==
    (/\ outcome # "none"
     /\ ~Missing(conf)
     /\ BadFrequency(conf.frequency) \/ BadRepetitions(conf.repetitions))
        => (outcome = "ValueError" /\ fpc = "none")

\* ------------------------------------------------------------------ C18
\* One invocation of the trigger: Frequency.__call__ from entry to return.
CallStep == fpc = "ready" /\ fpc' = "called"

\* C18: an invocation changes the count by 0 or by exactly +1, however long
\* the elapsed time; api.new_task is called with the stored nested
\* configuration exactly once if the count went up and not at all if it did
\* not; the count never goes down.
C18_AtMostOneFire ==
    /\ [][CallStep =>
            \/ triggered' = triggered /\ spawned' = spawned
            \/ triggered' = triggered + 1 /\ spawned' = Append(spawned, nested)]_vars
    /\ [][triggered' >= triggered]_vars

\* An invocation after at least two mean intervals has counted once.
C18_Witness ==
    /\ fpc = "called"
    /\ slept >= 2 * time_per_trigger
    /\ triggered = 1
    /\ spawned = <<nested>>

\* ------------------------------------------------------------------ C19
\* C19: an invocation fires exactly if its draw r in [0,1) is below
\* elapsed / mean interval, the ratio being used as it is: with the elapsed
\* time at or above the mean interval it fires for every draw, with the
\* elapsed time at or below zero for none.
C19_FiresIffBelowRatio ==
    [][CallStep =>
        /\ (triggered' = triggered + 1) <=>
                (draw' * time_per_trigger < (clock - last_check) * RandDen)
        /\ (clock - last_check >= time_per_trigger) => triggered' = triggered + 1
        /\ (clock - last_check <= 0) => triggered' = triggered]_vars

\* The largest draw has fired after a sleep of at least the mean interval.
C19_Witness ==
    /\ fpc = "called"
    /\ draw = RandDen - 1
    /\ slept >= time_per_trigger
    /\ triggered = 1

\* ------------------------------------------------------------------ C20
\* C20: every invocation, firing or not, sets last_check to the current
\* time, and nothing else moves it: the elapsed time of an invocation is the
\* time since the invocation before it, or since construction.
C20_LastCheckEveryCall ==
    /\ [][CallStep => (slept' = clock - last_check /\ last_check' = clock)]_vars
    /\ [][(last_check' # last_check /\ fpc = "ready") => CallStep]_vars

\* An invocation that did not fire has moved last_check.
C20_Witness ==
    /\ fpc = "called"
    /\ triggered = 0
    /\ slept # 0
    /\ last_check = clock

\* ------------------------------------------------------------------ C13
\* Worker g takes a step from position p.
Leaves(g, p) == worker[g].pc = p /\ worker'[g].pc # p

\* Every consumer thread that was started has ended.
AllEnded == gen > 0 /\ \A g \in 1..gen : worker[g].pc = "done"

\* C13: teardown lets no error escape.  After the loop the worker resets the
\* queue to none and persist to true, tries the graceful Quit first, tries
\* the forced kill only if Quit failed, drops a failure of the kill, and in
\* all three outcomes sets the handle to null and ends; when every worker
\* has ended the handle is null and the queue is none.
C13_TeardownSwallows ==
    /\ [][\A g \in Gens :
            /\ worker'[g].pc = "crashed" => worker[g].pc = "crashed"
            /\ Leaves(g, "reset") => (action_queue' = NoQueue /\ worker'[g].pc = "persist")
            /\ Leaves(g, "persist") => (persist' /\ worker'[g].pc = "quit")
            /\ Leaves(g, "quit") =>
                  \/ worker'[g].pc = "clear" /\ ~ie.null /\ ~ie.dead /\ ie'.dead
                  \/ worker'[g].pc = "kill" /\ ie' = ie
            /\ worker'[g].pc = "kill" => worker[g].pc \in {"quit", "kill"}
            /\ Leaves(g, "kill") => worker'[g].pc = "clear"
            /\ Leaves(g, "clear") => (ie' = NoIE /\ worker'[g].pc = "done")]_vars
    /\ [](AllEnded => (ie.null /\ action_queue = NoQueue))

\* Quit and the forced kill have both failed on the worker's own browser, and
\* the worker goes on to clear the handle.
C13_Witness ==
    \E g \in Gens : worker[g].pc = "clear" /\ ~ie.null /\ ~ie.dead /\ ie.gen = g /\ gen = g

\* ------------------------------------------------------------------ C14
\* The consumer threads that exist: started and not yet ended, those that
\* have left the loop and are tearing down included.
Alive == {g \in Gens : worker[g].pc \notin {"unborn", "done", "crashed"}}

\* C14: at every moment at most one worker thread exists, one that is still
\* tearing down included: no second worker is started while the previous
\* one is running or tearing down.
C14_OneWorker == Cardinality(Alive) <= 1

\* ------------------------------------------------------------------ C15
\* A step of the caller's thread.
CallerStep == main' # main

\* The steps of the caller's thread that evaluate cls._ie: status tests it
\* at line 96 and reads its Busy at line 98.
CallerReadsHandle == main.pc \in {"idle", "status_busy"} /\ main'.op = "status"

\* C15: the handle is read and written by the worker thread only: no step
\* of the caller's thread (construction, get, close_browser, status) reads,
\* dereferences or changes it.
C15_HandleWorkerOnly == [][CallerStep => (ie' = ie /\ ~CallerReadsHandle)]_vars

\* ------------------------------------------------------------------ C17
\* C17: _wait_for_ie always ends: if the browser stays busy, the guard
\* terminates its process once the 200 seconds have passed and the wait ends,
\* by returning or by raising to the worker's handler, so the worker is
\* back at its loop for the later requests.  At most one worker is inside an
\* action at a time, and a worker leaves the wait only for its loop.
C17_WaitEnds ==
    (\E g \in Gens : worker[g].pc = "wait") ~> (\A g \in Gens : worker[g].pc # "wait")

\* The guard has terminated the browser and the visit has ended by raising.
C17_Witness ==
    /\ gen = 1
    /\ worker[1].pc = "loop"
    /\ ~ie.null /\ ie.dead /\ ie.busy
    /\ feedback # <<>>

\* ------------------------------------------------------------------ C16
\* close_browser has just been called and the queue is empty.
ShutdownOnEmpty ==
    /\ main = Returned("call", main.t)
    /\ main.t \in Tasks /\ task[main.t].close
    /\ ~persist
    /\ action_queue = EmptyQueue

\* C16: if close_browser is called while the queue is empty and nothing is
\* put afterwards, the worker, fairly scheduled, eventually sees _persist
\* false at a wake-up of its get, leaves the loop and finishes teardown, the
\* handle ending null.
C16_ShutdownCompletes ==
    \A g \in Gens, n \in 1..MaxOps :
        (ShutdownOnEmpty /\ gen = g /\ Len(submitted) = n)
            ~> ((worker[g].pc = "done" /\ ie.null) \/ Len(submitted) > n)

\* ------------------------------------------------------------------ C21
\* The main thread's step that starts a consumer thread on a queue it has
\* just made (line 44-46).
StartsWorker == main.pc = "new_start" /\ main'.pc = "new_put"

\* The start action of generation g has run.
StartRan(g) == \E k \in DOMAIN executed : executed[k].act = "start" /\ executed[k].gen = g

\* Consumer thread g has left its loop.
LeftLoop(g) == worker[g].pc \in {"reset", "persist", "quit", "kill", "clear", "done"}

\* C21: when a fresh worker starts, _persist is true: a close_browser made
\* against an earlier generation never carries over, so no worker leaves its
\* loop before it has run its own start action.
C21_FreshWorkerPersists ==
    /\ [][StartsWorker => persist]_vars
    /\ [](\A g \in Gens : LeftLoop(g) => StartRan(g))

\* ------------------------------------------------------------------ C22
\* A teardown step of worker g (line 75, 77-81 or 85) that changes a handle
\* set by the start action of a later generation.
TeardownHitsLater(g) ==
    /\ worker[g].pc \in {"quit", "kill", "clear"}
    /\ worker'[g] # worker[g]
    /\ ~ie.null /\ ie.gen > g
    /\ ie' # ie

\* The start action of generation g has run and has not raised.
StartSucceeded(g) ==
    \E k \in DOMAIN executed :
        /\ executed[k].act = "start" /\ executed[k].gen = g
        /\ \A i \in DOMAIN feedback : feedback[i].n # executed[k].n

\* Worker g, whose start action succeeded, runs a visit on a None handle.
VisitOnNull(g) ==
    /\ worker[g].pc = "run" /\ worker[g].cur.act = "visit"
    /\ worker'[g] # worker[g]
    /\ StartSucceeded(g)
    /\ ie.null

\* C22: the teardown of one generation never touches the browser of a later
\* one: it neither quits nor kills it nor sets its handle to None, so no
\* visit of a generation whose start action succeeded runs on a None handle.
C22_TeardownKeepsToItsOwn ==
    [][\A g \in Gens : ~TeardownHitsLater(g) /\ ~VisitOnNull(g)]_vars

\* ------------------------------------------------------------------ C23
\* C23: status never raises, whatever the worker does meanwhile, also when
\* teardown sets the handle to None between the test of line 96 and the read
\* of Busy at line 98: it returns one of its three answers.
C23_StatusNeverRaises ==
    (main.pc = "returned" /\ main.op = "status") => ret \in {"notstarted", "loading", "idle"}

====
